---- MODULE Spec2Model ----
(***************************************************************************)
(* Model of docs/app.js, the dashboard of the Cu3VS4 Bayesian optimisation *)
(* project: the state object, loadData and its two fetches, showError,     *)
(* updateUI and the four view updates, the two filter-tab click handlers   *)
(* and the optional auto-refresh timer.                                    *)
(*                                                                         *)
(* Representation.                                                         *)
(*  - A JavaScript value read from JSON is a record [t, v]: t is one of    *)
(*    "null", "undefined" (a missing key), "nan", "str" (a string that is  *)
(*    not numeric) and "num"; v is the number in thousandths (2675 is      *)
(*    2.675), standing for the binary double nearest to that decimal.      *)
(*  - An exp_id is a sequence of one-character strings, so that            *)
(*    replace(/\D/g, '') and parseInt are computed character by character. *)
(*  - A timestamp is an ISO string; DateParse gives its instant in minutes *)
(*    since 2026-01-01T00:00Z (the code's milliseconds, scaled), so two    *)
(*    different strings can denote the same instant.                       *)
(*  - A panel's innerHTML is a record [kind, label, items]: kind "static"  *)
(*    is the page's own markup, "error" the fragment of showError, "empty" *)
(*    an empty-state fragment, "cards"/"rows" a list of rendered records.  *)
(***************************************************************************)
EXTENDS Integers, Sequences, FiniteSets, TLC

VARIABLES state, dom, pc, refreshInterval, inflight, started, hist, loaded

vars == <<state, dom, pc, refreshInterval, inflight, started, hist, loaded>>

(***************************************************************************)
(* Bounds of the model.                                                    *)
(***************************************************************************)
MaxLoads == 2
MaxRecs == 3
MaxExps == 3

(***************************************************************************)
(* JavaScript values and number formatting.                                *)
(***************************************************************************)
Null == [t |-> "null", v |-> 0]
Undefined == [t |-> "undefined", v |-> 0]
NaN == [t |-> "nan", v |-> 0]
NotNumeric == [t |-> "str", v |-> 0]
Num(x) == [t |-> "num", v |-> x]

\* Number(n): null is 0, undefined and a non-numeric string are NaN.
ToNumber(n) ==
    CASE n.t = "num" -> n
      [] n.t = "null" -> Num(0)
      [] OTHER -> NaN

\* isNaN(n), which converts its argument with Number first.
IsNaN(n) == ToNumber(n).t = "nan"

\* n * 100 as JavaScript computes it.  The product is the double nearest to
\* the exact product of two doubles, so it lies within rounding error of the
\* decimal v / 10, which the one decimal it is shown with never puts midway.
TimesHundred(n) ==
    IF ToNumber(n).t = "nan" THEN NaN ELSE Num(ToNumber(n).v * 100)

Pow10(d) == CASE d = 0 -> 1 [] d = 1 -> 10 [] d = 2 -> 100 [] OTHER -> 1000

RECURSIVE PadLeft(_, _)
PadLeft(s, width) == IF Len(s) >= width THEN s ELSE PadLeft("0" \o s, width)

\* The number of bits of a positive integer.
RECURSIVE BitLength(_)
BitLength(i) == IF i = 0 THEN 0 ELSE 1 + BitLength(i \div 2)

\* The position, after the binary point, of the first 1 bit of f/1000
\* (0 < f < 1000): the number of doublings that bring f to 1000 or more.
RECURSIVE FirstFractionBit(_)
FirstFractionBit(f) == IF f >= 1000 THEN 0 ELSE 1 + FirstFractionBit(2 * f)

\* What is left of the fraction f/1000 after k of its bits, in thousandths
\* of the last bit kept.
RECURSIVE FractionTail(_, _)
FractionTail(f, k) == IF k = 0 THEN f ELSE FractionTail((2 * f) % 1000, k - 1)

\* The fraction bits a double keeps of m/1000 (m > 0): its 53-bit significand
\* holds the bits of the integer part and then the fraction's, or the 53 bits
\* from the fraction's first 1 bit on when the integer part is 0.
KeptFractionBits(m) ==
    IF m >= 1000 THEN 53 - BitLength(m \div 1000)
    ELSE FirstFractionBit(m % 1000) + 52

\* Rounding to nearest of a tail beyond the last bit kept: it is dropped
\* below one half and rounds up above it, and it is never exactly one half
\* once three fraction bits are kept.
TailSign(tail) == IF tail = 0 THEN 0 ELSE IF tail < 500 THEN -1 ELSE 1

\* A number is a binary double: the decimal m/1000 (m >= 0) is stored as the
\* nearest value with a 53-bit significand.  DoubleError is the sign of
\* (the double - m/1000): 0 when m/1000 is exact, -1 when the double lies
\* below it, 1 when it lies above.
DoubleError(m) ==
    IF m % 1000 = 0 THEN 0
    ELSE TailSign(FractionTail(m % 1000, KeptFractionBits(m)))

\* The integer n for which n * scale / 1000 is nearest to the double of
\* m/1000, the larger n when the double itself lies midway.  A decimal that
\* lies midway goes the way its double errs: 1.005 is stored below 1.005 and
\* rounds to 1.00, 0.125 is exact and rounds to 0.13.
RoundToScale(m, scale) ==
    IF 2 * (m % scale) < scale THEN m \div scale
    ELSE IF 2 * (m % scale) > scale \/ DoubleError(m) >= 0
         THEN (m \div scale) + 1
         ELSE m \div scale

\* The digits of n / 10^decimals, with exactly `decimals` after the point.
FixedDigits(n, decimals) ==
    ToString(n \div Pow10(decimals))
    \o (IF decimals = 0 THEN ""
        ELSE "." \o PadLeft(ToString(n % Pow10(decimals)), decimals))

Magnitude(v) == IF v < 0 THEN -v ELSE v

\* Number.prototype.toFixed(decimals) of a number given in thousandths: the
\* sign, then the magnitude of the double rounded to `decimals` decimals.
ToFixed(x, decimals) ==
    IF x.t = "nan" THEN "NaN"
    ELSE (IF x.v < 0 THEN "-" ELSE "")
         \o FixedDigits(RoundToScale(Magnitude(x.v), Pow10(3 - decimals)),
                        decimals)

\* formatNum of createRecommendationCard.
CardFormatNum(n, decimals) ==
    IF n.t = "null" \/ n.t = "undefined" THEN "--"
    ELSE ToFixed(ToNumber(n), decimals)

\* formatNum of createExperimentRow.
RowFormatNum(n, decimals) ==
    IF n.t = "null" \/ n.t = "undefined" \/ IsNaN(n) THEN "--"
    ELSE ToFixed(ToNumber(n), decimals)

(***************************************************************************)
(* Dates.  The table lists the timestamps the model's records use.         *)
(***************************************************************************)
T1 == "2026-01-01T10:00:00Z"
T1b == "2026-01-01T11:00:00+01:00"
T2 == "2026-01-02T09:30:00Z"

\* new Date(str) as a number: the instant, in minutes since 2026-01-01T00:00Z.
DateParse(str) ==
    CASE str = T1 -> 600
      [] str = T1b -> 600
      [] str = T2 -> 2010

\* formatDate of createRecommendationCard (a viewer in UTC).
FormatDate(dateStr) ==
    IF dateStr = "" THEN "--"
    ELSE CASE DateParse(dateStr) = 600 -> "Jan 1, 2026, 10:00 AM"
           [] DateParse(dateStr) = 2010 -> "Jan 2, 2026, 09:30 AM"

(***************************************************************************)
(* Recommendation cards.                                                   *)
(***************************************************************************)
EmptyConditions ==
    [present |-> FALSE, Temp |-> Undefined, Time |-> Undefined,
     VOacac |-> Undefined, DDT |-> Undefined, OAm |-> Undefined]

EmptyPredictions ==
    [present |-> FALSE, size_mu |-> Undefined, size_std |-> Undefined,
     gsd_mu |-> Undefined, gsd_std |-> Undefined, sq_mu |-> Undefined,
     sq_std |-> Undefined, p_feasible |-> Undefined]

EmptyTarget == [present |-> FALSE, size |-> Undefined, tolerance |-> Undefined]

\* rec.conditions || {}, rec.predictions || {}, rec.target || {}
OrEmpty(obj, empty) == IF obj.present THEN obj ELSE empty

createRecommendationCard(rec) ==
    LET conditions == OrEmpty(rec.conditions, EmptyConditions)
        predictions == OrEmpty(rec.predictions, EmptyPredictions)
        target == OrEmpty(rec.target, EmptyTarget)
    IN [rec_id |-> rec.rec_id,
        status |-> rec.status,
        targetSize |-> CardFormatNum(target.size, 1),
        targetTolerance |-> CardFormatNum(target.tolerance, 1),
        Temp |-> CardFormatNum(conditions.Temp, 1),
        Time |-> CardFormatNum(conditions.Time, 1),
        VOacac |-> CardFormatNum(conditions.VOacac, 2),
        DDT |-> CardFormatNum(conditions.DDT, 2),
        OAm |-> CardFormatNum(conditions.OAm, 2),
        size_mu |-> CardFormatNum(predictions.size_mu, 1),
        size_std |-> CardFormatNum(predictions.size_std, 1),
        gsd_mu |-> CardFormatNum(predictions.gsd_mu, 3),
        gsd_std |-> CardFormatNum(predictions.gsd_std, 3),
        sq_mu |-> CardFormatNum(predictions.sq_mu, 3),
        sq_std |-> CardFormatNum(predictions.sq_std, 3),
        pFeasible |-> CardFormatNum(TimesHundred(predictions.p_feasible), 1),
        skipInfo |-> IF rec.skip_reason # ""
                     THEN "Skip reason: " \o rec.skip_reason ELSE "",
        created |-> FormatDate(rec.timestamp),
        completed |-> IF rec.completed_timestamp # ""
                      THEN "Completed: " \o FormatDate(rec.completed_timestamp)
                      ELSE ""]

(***************************************************************************)
(* Experiment rows.                                                        *)
(***************************************************************************)
RECURSIVE JoinChars(_)
JoinChars(chars) ==
    IF chars = <<>> THEN "" ELSE Head(chars) \o JoinChars(Tail(chars))

createExperimentRow(exp) ==
    LET sourceClass == IF exp.source # "" THEN exp.source ELSE "imported"
    IN [exp_id |-> JoinChars(exp.exp_id),
        Temp |-> RowFormatNum(exp.Temp, 0),
        Time |-> RowFormatNum(exp.Time, 1),
        VOacac |-> RowFormatNum(exp.VOacac, 2),
        DDT |-> RowFormatNum(exp.DDT, 2),
        OAm |-> RowFormatNum(exp.OAm, 2),
        Size |-> RowFormatNum(exp.Size, 1),
        GSD |-> RowFormatNum(exp.GSD, 3),
        Squareness |-> RowFormatNum(exp.Squareness, 3),
        sourceClass |-> sourceClass]

(***************************************************************************)
(* Sorting.  Array.prototype.sort is stable and sorts the array it is      *)
(* called on; with a consistent comparator its result is the one below.    *)
(***************************************************************************)
\* A comparator with its operands swapped: oldest first.
RecCompareAscending(a, b) == DateParse(a.timestamp) - DateParse(b.timestamp)

\* The comparator of updateRecommendations.
RecCompare(a, b) == DateParse(b.timestamp) - DateParse(a.timestamp)

Digits == {"0", "1", "2", "3", "4", "5", "6", "7", "8", "9"}

IsDigit(c) == c \in Digits

DigitValue(c) ==
    CASE c = "0" -> 0 [] c = "1" -> 1 [] c = "2" -> 2 [] c = "3" -> 3
      [] c = "4" -> 4 [] c = "5" -> 5 [] c = "6" -> 6 [] c = "7" -> 7
      [] c = "8" -> 8 [] c = "9" -> 9

\* exp_id.replace(/\D/g, '')
StripNonDigits(chars) == SelectSeq(chars, IsDigit)

RECURSIVE ParseDigits(_, _)
ParseDigits(chars, acc) ==
    IF chars = <<>> THEN acc
    ELSE ParseDigits(Tail(chars), 10 * acc + DigitValue(Head(chars)))

\* parseInt(exp_id) || 0 without the replace: parseInt stops at the first
\* character that is no digit.
RECURSIVE LeadingDigits(_)
LeadingDigits(chars) ==
    IF chars = <<>> \/ ~IsDigit(Head(chars)) THEN <<>>
    ELSE <<Head(chars)>> \o LeadingDigits(Tail(chars))

ExpNumberUnstripped(exp) ==
    LET digits == LeadingDigits(exp.exp_id)
    IN IF digits = <<>> THEN 0 ELSE ParseDigits(digits, 0)

\* parseInt(exp_id.replace(/\D/g, '')) || 0: the empty string parses to NaN,
\* which is falsy.
ExpNumber(exp) ==
    LET digits == StripNonDigits(exp.exp_id)
    IN IF digits = <<>> THEN 0 ELSE ParseDigits(digits, 0)

\* The comparator of updateExperimentsTable.
ExpCompare(a, b) == ExpNumber(a) - ExpNumber(b)

\* The comparator function handed to sort: "timestamp" names the one of
\* updateRecommendations, "exp_id" the one of updateExperimentsTable.
Compare(by, a, b) ==
    IF by = "timestamp" THEN RecCompare(a, b) ELSE ExpCompare(a, b)

\* x placed in the sorted sequence s behind every element that does not
\* compare greater than it.
RECURSIVE InsertSorted(_, _, _)
InsertSorted(s, x, by) ==
    IF s = <<>> THEN <<x>>
    ELSE IF Compare(by, Head(s), x) > 0 THEN <<x>> \o s
         ELSE <<Head(s)>> \o InsertSorted(Tail(s), x, by)

RECURSIVE SortWith(_, _, _)
SortWith(sorted, rest, by) ==
    IF rest = <<>> THEN sorted
    ELSE SortWith(InsertSorted(sorted, Head(rest), by), Tail(rest), by)

\* array.sort(compare)
ArraySort(array, by) == SortWith(<<>>, array, by)

(***************************************************************************)
(* The records the model loads.                                            *)
(***************************************************************************)
BaseConditions ==
    [present |-> TRUE, Temp |-> Num(220000), Time |-> Num(30000),
     VOacac |-> Num(125), DDT |-> Num(2500), OAm |-> Num(10000)]

BasePredictions ==
    [present |-> TRUE, size_mu |-> Num(12500), size_std |-> Num(1250),
     gsd_mu |-> Num(1125), gsd_std |-> Num(50), sq_mu |-> Num(875),
     sq_std |-> Num(31), p_feasible |-> Num(500)]

BaseTarget == [present |-> TRUE, size |-> Num(12000), tolerance |-> Num(1500)]

MkRec(id, status, timestamp) ==
    [rec_id |-> id, status |-> status, conditions |-> BaseConditions,
     predictions |-> BasePredictions, target |-> BaseTarget,
     timestamp |-> timestamp,
     completed_timestamp |-> IF status = "completed" THEN T2 ELSE "",
     skip_reason |-> IF status = "skipped" THEN "out of stock" ELSE ""]

MkExp(chars, source) ==
    [exp_id |-> chars, Temp |-> Num(220000), Time |-> Num(30000),
     VOacac |-> Num(125), DDT |-> Num(2500), OAm |-> Num(10000),
     Size |-> Num(12250), GSD |-> Null, Squareness |-> Undefined,
     source |-> source]

RA == MkRec("R1", "pending", T1)
RB == MkRec("R2", "pending", T1b)
RC == MkRec("R3", "completed", T2)
RD == MkRec("R4", "skipped", T1)

EA == MkExp(<<"E", "2">>, "imported")
EB == MkExp(<<"E", "1", "0">>, "recommendation")
EC == MkExp(<<"E", "1">>, "manual")
ED == MkExp(<<"E", "1", "-", "0">>, "imported")
EE == MkExp(<<"X">>, "manual")

RecPool == {RA, RB, RC, RD}
ExpPool == {EA, EB, EC, ED, EE}

\* What JSON.parse can put in a numeric field: null, nothing (the key is
\* missing), a string that is no number, a number.
FieldValues == {Null, Undefined, NotNumeric, Num(0), Num(-500), Num(2675)}

ConditionFields == {"Temp", "Time", "VOacac", "DDT", "OAm"}
PredictionFields ==
    {"size_mu", "size_std", "gsd_mu", "gsd_std", "sq_mu", "sq_std", "p_feasible"}
TargetFields == {"size", "tolerance"}
ExpNumericFields ==
    {"Temp", "Time", "VOacac", "DDT", "OAm", "Size", "GSD", "Squareness"}

RecVariants ==
    {RA,
     [RA EXCEPT !.conditions = EmptyConditions],
     [RA EXCEPT !.predictions = EmptyPredictions],
     [RA EXCEPT !.target = EmptyTarget]}
    \cup {[RA EXCEPT !.conditions[f] = v] : f \in ConditionFields, v \in FieldValues}
    \cup {[RA EXCEPT !.predictions[f] = v] : f \in PredictionFields, v \in FieldValues}
    \cup {[RA EXCEPT !.target[f] = v] : f \in TargetFields, v \in FieldValues}

ExpVariants ==
    {EA} \cup {[EA EXCEPT ![f] = v] : f \in ExpNumericFields, v \in FieldValues}

\* createRecommendationCard and createExperimentRow tabulated over the
\* records the model loads.
CardOf == [rec \in RecPool \cup RecVariants |-> createRecommendationCard(rec)]
RowOf == [exp \in ExpPool \cup ExpVariants |-> createExperimentRow(exp)]

(***************************************************************************)
(* The page.                                                               *)
(***************************************************************************)
\* What index.html itself puts in a panel or a counter before any script
\* has written to it.
StaticMarkup == [kind |-> "static", label |-> "", items |-> <<>>]
StaticText == "static"

ErrorMessage == "Unable to load data. Make sure the JSON files are in the data/ folder."

Filters == {"all", "pending", "completed", "skipped"}
Sources == {"all", "imported", "recommendation", "manual"}

\* const state = {...}
InitialState ==
    [experiments |-> <<>>,
     recommendations |-> <<>>,
     currentFilter |-> "pending",
     currentSource |-> "all",
     isLoading |-> TRUE]

InitialDom ==
    [recList |-> StaticMarkup,
     expTbody |-> StaticMarkup,
     total |-> StaticText,
     pending |-> StaticText,
     completed |-> StaticText,
     breakdown |-> StaticText,
     pendingBadge |-> StaticText,
     completedBadge |-> StaticText,
     skippedBadge |-> StaticText]

\* array.filter(r => r.status === status).length
CountStatus(recs, status) ==
    LET Matches(r) == r.status = status
    IN Len(SelectSeq(recs, Matches))

\* array.filter(e => e.source === source).length
CountSource(exps, source) ==
    LET Matches(e) == e.source = source
    IN Len(SelectSeq(exps, Matches))

\* A showError that reaches only the first container.
showErrorFirstOnly(d, message) ==
    [d EXCEPT !.recList = [kind |-> "error", label |-> message, items |-> <<>>]]

showError(d, message) ==
    [d EXCEPT !.recList = [kind |-> "error", label |-> message, items |-> <<>>],
              !.expTbody = [kind |-> "error", label |-> message, items |-> <<>>]]

\* An updateStats that counts the recommendations of the selected tab only.
updateStatsOfSelection(st, d) ==
    LET Shown(r) == st.currentFilter = "all" \/ r.status = st.currentFilter
        shown == SelectSeq(st.recommendations, Shown)
    IN [d EXCEPT
          !.total = ToString(Len(st.experiments)),
          !.pending = ToString(CountStatus(shown, "pending")),
          !.completed = ToString(CountStatus(shown, "completed")),
          !.breakdown = ToString(CountSource(st.experiments, "imported")) \o "/"
                        \o ToString(CountSource(st.experiments, "recommendation")) \o "/"
                        \o ToString(CountSource(st.experiments, "manual"))]

updateStats(st, d) ==
    [d EXCEPT
       !.total = ToString(Len(st.experiments)),
       !.pending = ToString(CountStatus(st.recommendations, "pending")),
       !.completed = ToString(CountStatus(st.recommendations, "completed")),
       !.breakdown = ToString(CountSource(st.experiments, "imported")) \o "/"
                     \o ToString(CountSource(st.experiments, "recommendation")) \o "/"
                     \o ToString(CountSource(st.experiments, "manual"))]

updateBadges(st, d) ==
    [d EXCEPT
       !.pendingBadge = ToString(CountStatus(st.recommendations, "pending")),
       !.completedBadge = ToString(CountStatus(st.recommendations, "completed")),
       !.skippedBadge = ToString(CountStatus(st.recommendations, "skipped"))]

\* filtered.map(rec => createRecommendationCard(rec))
MapCards(recs) == [i \in 1..Len(recs) |-> CardOf[recs[i]]]

\* filtered.map(exp => createExperimentRow(exp))
MapRows(exps) == [i \in 1..Len(exps) |-> RowOf[exps[i]]]

\* updateRecommendations: the new state and page.  filtered is the array
\* state.recommendations itself unless a filter copied it, and sort works on
\* the array it is given.
updateRecommendations(st, d) ==
    LET copied == st.currentFilter # "all"
        Matches(r) == r.status = st.currentFilter
        filtered == IF copied THEN SelectSeq(st.recommendations, Matches)
                    ELSE st.recommendations
        sorted == ArraySort(filtered, "timestamp")
        html == IF Len(sorted) = 0
                THEN [kind |-> "empty",
                      label |-> "No "
                                \o (IF st.currentFilter = "all" THEN ""
                                    ELSE st.currentFilter)
                                \o " recommendations found.",
                      items |-> <<>>]
                ELSE [kind |-> "cards", label |-> "", items |-> MapCards(sorted)]
    IN [state |-> IF copied THEN st ELSE [st EXCEPT !.recommendations = sorted],
        dom |-> [d EXCEPT !.recList = html]]

\* updateExperimentsTable, likewise.
updateExperimentsTable(st, d) ==
    LET copied == st.currentSource # "all"
        Matches(e) == e.source = st.currentSource
        filtered == IF copied THEN SelectSeq(st.experiments, Matches)
                    ELSE st.experiments
        sorted == ArraySort(filtered, "exp_id")
        html == IF Len(sorted) = 0
                THEN [kind |-> "empty",
                      label |-> "No experiments found for the selected source.",
                      items |-> <<>>]
                ELSE [kind |-> "rows", label |-> "", items |-> MapRows(sorted)]
    IN [state |-> IF copied THEN st ELSE [st EXCEPT !.experiments = sorted],
        dom |-> [d EXCEPT !.expTbody = html]]

\* The last step of updateUI: updateBadges on the state and page the
\* updates before it left.
updateUIBadges(ui) ==
    [state |-> ui.state, dom |-> updateBadges(ui.state, ui.dom)]

\* The third step of updateUI: updateExperimentsTable, likewise.
updateUIExperiments(ui) == updateExperimentsTable(ui.state, ui.dom)

\* updateUI: updateStats, updateRecommendations, updateExperimentsTable,
\* updateBadges, in that order.
updateUI(st, d) ==
    updateUIBadges(
        updateUIExperiments(updateRecommendations(st, updateStats(st, d))))

(***************************************************************************)
(* loadData.  The function returns to the event loop at each of its three *)
(* awaits: line 35 (Promise.all of the two fetches), line 44               *)
(* (expResponse.json()) and line 45 (recResponse.json()); what runs after  *)
(* one await and up to the next is one step, and other handlers run in     *)
(* between.  A fetch result is "reject" (the fetch itself fails), "notok"  *)
(* (a response whose ok is false) or "ok".  A body is [kind, data]:        *)
(* "badjson" (json() rejects), "null" (the JSON value null), "nokey" (an   *)
(* object without the experiments / recommendations key) or "data" (an     *)
(* object holding the list data).                                          *)
(***************************************************************************)
\* expData.experiments || [], recData.recommendations || []
OrEmptyList(body) == IF body.kind = "data" THEN body.data ELSE <<>>

\* The catch block of loadData: the state as the try block left it, and
\* showError.
loadDataCaught(stNow, d, thrownBy) ==
    [state |-> stNow,
     dom |-> showError(d, ErrorMessage),
     event |-> "loadError",
     cause |-> thrownBy]

\* The end of the try block: what updateUI returned, with no error.
loadDataDone(ui) ==
    [state |-> ui.state, dom |-> ui.dom, event |-> "loadOk", cause |-> ""]

\* state.experiments = expData.experiments || []
AssignExperiments(st, expData) ==
    [st EXCEPT !.experiments = OrEmptyList(expData)]

\* state.recommendations = recData.recommendations || []; isLoading = false
AssignRecommendations(st, recData) ==
    [st EXCEPT !.recommendations = OrEmptyList(recData),
               !.isLoading = FALSE]

\* loadData from the settling of line 45 to its end, both bodies parsed:
\* lines 47 to 51, and the catch block when reading a key of null throws.
loadDataAssignAndRender(st, d, expData, recData) ==
    IF expData.kind = "null"
      THEN loadDataCaught(st, d, "expData.experiments")
    ELSE IF recData.kind = "null"
      THEN loadDataCaught(AssignExperiments(st, expData), d,
                          "recData.recommendations")
    ELSE loadDataDone(
             updateUI(AssignRecommendations(
                          AssignExperiments(st, expData), recData), d))

(***************************************************************************)
(* What the two fetches can bring.                                         *)
(***************************************************************************)
\* The bodies the two files can hold in the model of the whole page.
ExpPayloads == {<<EA, EB, EC>>}
RecPayloads == {<<RA, RC, RD>>}

FetchResults == {"reject", "notok", "ok"}

Body(kind, data) == [kind |-> kind, data |-> data]

ExpBodies ==
    {Body(k, <<>>) : k \in {"badjson", "null", "nokey"}}
    \cup {Body("data", p) : p \in ExpPayloads}

RecBodies ==
    {Body(k, <<>>) : k \in {"badjson", "null", "nokey"}}
    \cup {Body("data", p) : p \in RecPayloads}

\* expData before line 44 has bound it.
NotParsed == Body("none", <<>>)

\* CONFIG.refreshInterval: null (0 here) as shipped, or a number of
\* milliseconds, which enables the timer.
RefreshIntervals == {0, 30000}

(***************************************************************************)
(* The page as a state machine.  inflight maps each running loadData to    *)
(* the line of the await it waits at and to expData once line 44 has bound *)
(* it.  hist and loaded only record what happened: hist the last event     *)
(* and, for a load that ended, the statement of loadData that threw (""    *)
(* when none did), newest the latest-started load that has ended so far,   *)
(* applied the load whose lists state holds; loaded the two lists as       *)
(* loadData last assigned them to state.                                   *)
(***************************************************************************)
Init ==
    /\ state = InitialState
    /\ dom = InitialDom
    /\ pc = "parsed"
    /\ refreshInterval \in RefreshIntervals
    /\ inflight = << >>
    /\ started = 0
    /\ hist = [event |-> "none", cause |-> "", newest |-> 0, applied |-> 0]
    /\ loaded = [experiments |-> <<>>, recommendations |-> <<>>]

\* A call of loadData up to its first await, line 35.
CallLoadData(id) ==
    [i \in DOMAIN inflight \cup {id} |->
       IF i = id THEN [line |-> 35, expData |-> NotParsed] ELSE inflight[i]]

\* The DOMContentLoaded handler: setupEventListeners(), loadData() up to its
\* first await, and setInterval when refreshInterval is set.
DOMContentLoaded ==
    /\ pc = "parsed"
    /\ pc' = "ready"
    /\ started' = 1
    /\ inflight' = CallLoadData(1)
    /\ hist' = [hist EXCEPT !.event = "start", !.cause = ""]
    /\ UNCHANGED <<state, dom, refreshInterval, loaded>>

\* A tick of setInterval(loadData, CONFIG.refreshInterval): loadData() up to
\* its first await.
TimerFire ==
    /\ pc = "ready"
    /\ refreshInterval # 0
    /\ started < MaxLoads
    /\ started' = started + 1
    /\ inflight' = CallLoadData(started + 1)
    /\ hist' = [hist EXCEPT !.event = "start", !.cause = ""]
    /\ UNCHANGED <<state, dom, pc, refreshInterval, loaded>>

\* Load id goes on to its next await: it has written nothing.
LoadAwaits(id, line, expData) ==
    /\ inflight' = [inflight EXCEPT ![id] = [line |-> line, expData |-> expData]]
    /\ hist' = [hist EXCEPT !.event = "await", !.cause = ""]
    /\ UNCHANGED <<state, dom, pc, refreshInterval, started, loaded>>

\* Load id runs to the end of loadData with result r, the lists it assigned
\* to state being those of loadedNow.
LoadEnds(id, r, loadedNow) ==
    /\ hist' = [event |-> r.event,
                cause |-> r.cause,
                newest |-> IF id > hist.newest THEN id ELSE hist.newest,
                applied |-> IF r.event = "loadOk" THEN id ELSE hist.applied]
    /\ state' = r.state
    /\ dom' = r.dom
    /\ loaded' = loadedNow
    /\ inflight' = [i \in DOMAIN inflight \ {id} |-> inflight[i]]
    /\ UNCHANGED <<pc, refreshInterval, started>>

\* Line 35 settles: Promise.all rejects when either fetch does, line 41
\* throws when either response is not ok, and otherwise line 44 calls
\* expResponse.json() and awaits it.
LoadFetchSettleWith(id, expFetch, recFetch) ==
    /\ id \in DOMAIN inflight
    /\ inflight[id].line = 35
    /\ IF expFetch = "reject" \/ recFetch = "reject"
         THEN LoadEnds(id, loadDataCaught(state, dom, "await Promise.all"),
                       loaded)
       ELSE IF expFetch = "notok" \/ recFetch = "notok"
         THEN LoadEnds(id, loadDataCaught(state, dom, "throw new Error"),
                       loaded)
       ELSE LoadAwaits(id, 44, NotParsed)

LoadFetchSettle(id) ==
    \E expFetch \in FetchResults, recFetch \in FetchResults :
        LoadFetchSettleWith(id, expFetch, recFetch)

\* Line 44 settles: expResponse.json() rejects, or binds expData, and then
\* line 45 calls recResponse.json() and awaits it.
LoadExpJsonSettleWith(id, expBody) ==
    /\ id \in DOMAIN inflight
    /\ inflight[id].line = 44
    /\ IF expBody.kind = "badjson"
         THEN LoadEnds(id,
                       loadDataCaught(state, dom, "await expResponse.json()"),
                       loaded)
       ELSE LoadAwaits(id, 45, expBody)

LoadExpJsonSettle(id) ==
    \E expBody \in ExpBodies : LoadExpJsonSettleWith(id, expBody)

\* The lists loadData has assigned to state when it ends with result r.
LoadedBy(r, expData, recData) ==
    CASE r.event = "loadOk" ->
           [experiments |-> OrEmptyList(expData),
            recommendations |-> OrEmptyList(recData)]
      [] r.cause = "recData.recommendations" ->
           [loaded EXCEPT !.experiments = OrEmptyList(expData)]
      [] OTHER -> loaded

\* Lines 47 to 51 of load id, run on the state and the page as they are now.
LoadAssignsAndRenders(id, r, recData) ==
    LoadEnds(id, r, LoadedBy(r, inflight[id].expData, recData))

\* The last step of a loadData that drops its result when a later-started
\* load has already ended.
LoadRecJsonSettleNewestOnly(id, recBody) ==
    /\ id \in DOMAIN inflight
    /\ inflight[id].line = 45
    /\ IF id < hist.newest
       THEN LoadEnds(id, [state |-> state, dom |-> dom, event |-> "loadOk",
                          cause |-> ""], loaded)
       ELSE LoadAssignsAndRenders(
                id,
                loadDataAssignAndRender(state, dom, inflight[id].expData,
                                        recBody),
                recBody)

\* Line 45 settles: recResponse.json() rejects, or binds recData, and then
\* lines 47 to 51 run, whatever other loads have done meanwhile.
LoadRecJsonSettleWith(id, recBody) ==
    /\ id \in DOMAIN inflight
    /\ inflight[id].line = 45
    /\ IF recBody.kind = "badjson"
         THEN LoadEnds(id,
                       loadDataCaught(state, dom, "await recResponse.json()"),
                       loaded)
       ELSE LoadAssignsAndRenders(
                id,
                loadDataAssignAndRender(state, dom, inflight[id].expData,
                                        recBody),
                recBody)

LoadRecJsonSettle(id) ==
    \E recBody \in RecBodies : LoadRecJsonSettleWith(id, recBody)

\* A listener that records the tab and forgets to render.
ClickFilterTabNoRender(filter) ==
    /\ pc = "ready"
    /\ state' = [state EXCEPT !.currentFilter = filter]
    /\ hist' = [hist EXCEPT !.event = "filterClick", !.cause = ""]
    /\ UNCHANGED <<dom, pc, refreshInterval, inflight, started, loaded>>

\* The click listener of a .filter-tab[data-filter] tab.
ClickFilterTab(filter) ==
    /\ pc = "ready"
    /\ LET r == updateRecommendations([state EXCEPT !.currentFilter = filter], dom)
       IN /\ state' = r.state
          /\ dom' = r.dom
    /\ hist' = [hist EXCEPT !.event = "filterClick", !.cause = ""]
    /\ UNCHANGED <<pc, refreshInterval, inflight, started, loaded>>

\* A listener that refreshes the whole page with updateUI.
ClickSourceTabUpdateUI(source) ==
    /\ pc = "ready"
    /\ LET r == updateUI([state EXCEPT !.currentSource = source], dom)
       IN /\ state' = r.state
          /\ dom' = r.dom
    /\ hist' = [hist EXCEPT !.event = "sourceClick", !.cause = ""]
    /\ UNCHANGED <<pc, refreshInterval, inflight, started, loaded>>

\* The click listener of a .filter-tab[data-source] tab.
ClickSourceTab(source) ==
    /\ pc = "ready"
    /\ LET r == updateExperimentsTable([state EXCEPT !.currentSource = source], dom)
       IN /\ state' = r.state
          /\ dom' = r.dom
    /\ hist' = [hist EXCEPT !.event = "sourceClick", !.cause = ""]
    /\ UNCHANGED <<pc, refreshInterval, inflight, started, loaded>>

Next ==
    \/ DOMContentLoaded
    \/ TimerFire
    \/ \E id \in DOMAIN inflight : LoadFetchSettle(id)
    \/ \E id \in DOMAIN inflight : LoadExpJsonSettle(id)
    \/ \E id \in DOMAIN inflight : LoadRecJsonSettle(id)
    \/ \E filter \in Filters : ClickFilterTab(filter)
    \/ \E source \in Sources : ClickSourceTab(source)

Spec == Init /\ [][Next]_vars

(***************************************************************************)
(* The page as shipped (no auto-refresh) loading arbitrary lists.          *)
(***************************************************************************)
BoundedSeq(S, n) == UNION {[1..k -> S] : k \in 0..n}

InitShipped == Init /\ refreshInterval = 0

\* Both fetches of the one load succeed.
FetchesOk == LoadFetchSettleWith(1, "ok", "ok")

\* The experiments file holds no experiments key.
ExperimentsWithoutKey == LoadExpJsonSettleWith(1, Body("nokey", <<>>))

\* The recommendations file holds any list of recommendations.
LoadRecommendations ==
    \E recs \in BoundedSeq(RecPool, MaxRecs) :
        LoadRecJsonSettleWith(1, Body("data", recs))

NextRec ==
    \/ DOMContentLoaded
    \/ FetchesOk
    \/ ExperimentsWithoutKey
    \/ LoadRecommendations
    \/ \E filter \in Filters : ClickFilterTab(filter)

SpecRec == InitShipped /\ [][NextRec]_vars

\* The experiments file holds any list of experiments.
LoadExperiments ==
    \E exps \in BoundedSeq(ExpPool, MaxExps) :
        LoadExpJsonSettleWith(1, Body("data", exps))

\* The recommendations file holds no recommendations key.
RecommendationsWithoutKey == LoadRecJsonSettleWith(1, Body("nokey", <<>>))

NextExp ==
    \/ DOMContentLoaded
    \/ FetchesOk
    \/ LoadExperiments
    \/ RecommendationsWithoutKey
    \/ \E source \in Sources : ClickSourceTab(source)

SpecExp == InitShipped /\ [][NextExp]_vars

(***************************************************************************)
(* The page as shipped loading one experiment and one recommendation, each *)
(* a base record with one numeric field replaced or one object left out.   *)
(***************************************************************************)
LoadOneExperiment ==
    \E exp \in ExpVariants : LoadExpJsonSettleWith(1, Body("data", <<exp>>))

LoadOneRecommendation ==
    \E rec \in RecVariants : LoadRecJsonSettleWith(1, Body("data", <<rec>>))

NextFmt ==
    \/ DOMContentLoaded
    \/ FetchesOk
    \/ LoadOneExperiment
    \/ LoadOneRecommendation

SpecFmt == InitShipped /\ [][NextFmt]_vars

(***************************************************************************)
(* Claims.                                                                 *)
(***************************************************************************)
StatsAndBadges(d) ==
    <<d.total, d.pending, d.completed, d.breakdown,
      d.pendingBadge, d.completedBadge, d.skippedBadge>>

ErrorFragment == [kind |-> "error", label |-> ErrorMessage, items |-> <<>>]

\* The statements of loadData at which a rejected fetch, a response that is
\* not ok and a body that is not JSON throw.
FetchFailureCauses ==
    {"await Promise.all", "throw new Error", "await expResponse.json()",
     "await recResponse.json()"}

\* C1: a load in which either fetch rejects, either response is not ok or
\* either body is not JSON assigns neither list of state, does not run
\* updateUI (the counters and badges keep their text) and leaves the error
\* fragment in both panels: the step in which it ends writes the error
\* fragment and nothing else, and its steps before that one write nothing.
C1_FailedFetchLoadsNothing ==
    [][/\ (hist'.event = "loadError" /\ hist'.cause \in FetchFailureCauses)
          => /\ state' = state
             /\ loaded' = loaded
             /\ StatsAndBadges(dom') = StatsAndBadges(dom)
             /\ dom'.recList = ErrorFragment
             /\ dom'.expTbody = ErrorFragment
       /\ hist'.event = "await"
          => /\ state' = state
             /\ loaded' = loaded
             /\ dom' = dom]_vars

\* A failed fetch after an earlier load had succeeded: the lists are kept
\* and both panels show the error.
C1_Witness ==
    /\ hist.event = "loadError"
    /\ hist.cause \in {"await Promise.all", "throw new Error",
                       "await expResponse.json()", "await recResponse.json()"}
    /\ hist.applied = 1
    /\ Len(state.experiments) = 3
    /\ dom.recList = ErrorFragment
    /\ dom.expTbody = ErrorFragment

RenderedRecList == updateRecommendations(state, dom).dom.recList
RenderedExpTbody == updateExperimentsTable(state, dom).dom.expTbody

\* C2 as claimed, from the first settled load on (so that both panels have
\* been written by the script): both panels show the render of the current
\* lists and selection.
C2_PanelsAlwaysShowCurrentRender ==
    hist.newest > 0
    => /\ dom.recList = RenderedRecList
       /\ dom.expTbody = RenderedExpTbody

\* C2 (amended): each panel shows the page's own markup (only while no load
\* has succeeded), the error fragment (only after some load has settled), or
\* the render of the current lists and the current selection; it never
\* shows a render of older lists or of an older selection.
C2_RenderedPanelsAreCurrent ==
    /\ \/ dom.recList = StaticMarkup /\ hist.applied = 0
       \/ dom.recList = ErrorFragment /\ hist.newest > 0
       \/ dom.recList.kind \in {"cards", "empty"} /\ dom.recList = RenderedRecList
    /\ \/ dom.expTbody = StaticMarkup /\ hist.applied = 0
       \/ dom.expTbody = ErrorFragment /\ hist.newest > 0
       \/ dom.expTbody.kind \in {"rows", "empty"} /\ dom.expTbody = RenderedExpTbody

\* A tab click after a failed refresh: the recommendations panel is rendered
\* again from the lists of the earlier load, selection "completed", while
\* the table still shows the error.
C2_Witness ==
    /\ hist.event = "filterClick"
    /\ state.currentFilter = "completed"
    /\ dom.recList.kind = "cards"
    /\ dom.expTbody = ErrorFragment

\* C3: rendering leaves the two lists of state as loadData assigned them,
\* elements and order.
C3_RenderingLeavesListsAsLoaded ==
    /\ state.recommendations = loaded.recommendations
    /\ state.experiments = loaded.experiments

Instant(rec) == DateParse(rec.timestamp)

\* The orders p of the indices in chosen (p[k] is the index shown at place
\* k) that put list[i] in front of list[j] whenever Before(list[i], list[j])
\* and keep list order between elements that Before does not order.
StableOrders(list, chosen, Before(_, _)) ==
    {p \in [1..Cardinality(chosen) -> chosen] :
       /\ \A j, k \in 1..Cardinality(chosen) : j < k => p[j] # p[k]
       /\ \A j, k \in 1..Cardinality(chosen) :
            j < k => \/ Before(list[p[j]], list[p[k]])
                     \/ (~Before(list[p[k]], list[p[j]]) /\ p[j] < p[k])}

NewerFirst(a, b) == Instant(a) > Instant(b)

\* C4: the recommendations panel, once rendered, shows the empty-state
\* fragment when no loaded recommendation has the selected status, and
\* otherwise one card for each loaded recommendation of that status (all of
\* them under "all"), newest first, equal timestamps in loaded order.
C4_CardsAreSelectionNewestFirst ==
    LET recs == loaded.recommendations
        chosen == {i \in 1..Len(recs) :
                     state.currentFilter = "all"
                     \/ recs[i].status = state.currentFilter}
    IN dom.recList # StaticMarkup
       => IF chosen = {}
          THEN dom.recList.kind = "empty" /\ dom.recList.items = <<>>
          ELSE /\ dom.recList.kind = "cards"
               /\ \E p \in StableOrders(recs, chosen, NewerFirst) :
                    dom.recList.items =
                      [k \in 1..Cardinality(chosen) |->
                         createRecommendationCard(recs[p[k]])]

\* Loaded R2, R3, R1 (R2 and R1 at the same instant) and, after a visit to
\* the "all" tab, the pending tab: R2 stays in front of R1.
C4_Witness ==
    /\ loaded.recommendations = <<RB, RC, RA>>
    /\ state.currentFilter = "pending"
    /\ state.recommendations = <<RC, RB, RA>>
    /\ dom.recList.kind = "cards"
    /\ Len(dom.recList.items) = 2
    /\ dom.recList.items[1].rec_id = "R2"
    /\ dom.recList.items[2].rec_id = "R1"

\* The integer an exp_id denotes once its non-digits are dropped, 0 when it
\* has no digit: the last digit plus ten times what stands before it.
RECURSIVE C5_IdNumber(_)
C5_IdNumber(chars) ==
    IF chars = <<>> THEN 0
    ELSE LET last == chars[Len(chars)]
             front == SubSeq(chars, 1, Len(chars) - 1)
         IN IF last \in Digits
            THEN 10 * C5_IdNumber(front)
                 + (CHOOSE n \in 0..9 : ToString(n) = last)
            ELSE C5_IdNumber(front)

SmallerIdFirst(a, b) == C5_IdNumber(a.exp_id) < C5_IdNumber(b.exp_id)

\* C5: the experiments table, once rendered, shows one row for each loaded
\* experiment of the selected source (all of them under "all"), ascending
\* by the number in exp_id, equal numbers in loaded order.
C5_RowsAreSelectionByIdNumber ==
    LET exps == loaded.experiments
        chosen == {i \in 1..Len(exps) :
                     state.currentSource = "all"
                     \/ exps[i].source = state.currentSource}
    IN dom.expTbody # StaticMarkup
       => IF chosen = {}
          THEN dom.expTbody.kind = "empty" /\ dom.expTbody.items = <<>>
          ELSE /\ dom.expTbody.kind = "rows"
               /\ \E p \in StableOrders(exps, chosen, SmallerIdFirst) :
                    dom.expTbody.items =
                      [k \in 1..Cardinality(chosen) |->
                         createExperimentRow(exps[p[k]])]

\* Loaded E2, E10, E1: shown as E1, E2, E10.
C5_Witness ==
    /\ loaded.experiments = <<EA, EB, EC>>
    /\ state.currentSource = "all"
    /\ dom.expTbody.kind = "rows"
    /\ [k \in 1..3 |-> dom.expTbody.items[k].exp_id] = <<"E1", "E2", "E10">>

\* C6: a recommendation-tab click sets currentFilter and renders the
\* recommendations panel, and leaves currentSource, the table, the counters
\* and the badges alone; a source-tab click does the same the other way
\* round; no other step changes currentFilter or currentSource.
C6_TabClickTouchesOwnViewOnly ==
    [][/\ hist'.event = "filterClick"
          => /\ state'.currentSource = state.currentSource
             /\ dom'.expTbody = dom.expTbody
             /\ StatsAndBadges(dom') = StatsAndBadges(dom)
             /\ dom'.recList.kind \in {"cards", "empty"}
             /\ dom'.recList = updateRecommendations(state', dom').dom.recList
       /\ hist'.event = "sourceClick"
          => /\ state'.currentFilter = state.currentFilter
             /\ dom'.recList = dom.recList
             /\ StatsAndBadges(dom') = StatsAndBadges(dom)
             /\ dom'.expTbody.kind \in {"rows", "empty"}
             /\ dom'.expTbody = updateExperimentsTable(state', dom').dom.expTbody
       /\ hist'.event \notin {"filterClick", "sourceClick"}
          => /\ state'.currentFilter = state.currentFilter
             /\ state'.currentSource = state.currentSource]_vars

\* A source-tab click while the counters still hold the page's own text and
\* the recommendations panel its own markup.
C6_Witness ==
    /\ hist.event = "sourceClick"
    /\ state.currentSource = "manual"
    /\ dom.expTbody.kind = "empty"
    /\ dom.recList = StaticMarkup
    /\ dom.total = StaticText

C7_Count(list, Test(_)) == Cardinality({i \in 1..Len(list) : Test(list[i])})

\* C7: right after a successful load the counters show the number of loaded
\* experiments, the numbers of pending and of completed loaded
\* recommendations and the imported/recommendation/manual counts, and the
\* three badges the per-status counts, whatever tabs are selected.
C7_StatsAndBadgesCountTheLoad ==
    LET IsPending(r) == r.status = "pending"
        IsCompleted(r) == r.status = "completed"
        IsSkipped(r) == r.status = "skipped"
        IsImported(e) == e.source = "imported"
        IsRecommendation(e) == e.source = "recommendation"
        IsManual(e) == e.source = "manual"
    IN hist.event = "loadOk"
       => /\ dom.total = ToString(Len(loaded.experiments))
          /\ dom.pending = ToString(C7_Count(loaded.recommendations, IsPending))
          /\ dom.completed = ToString(C7_Count(loaded.recommendations, IsCompleted))
          /\ dom.breakdown =
               ToString(C7_Count(loaded.experiments, IsImported)) \o "/"
               \o ToString(C7_Count(loaded.experiments, IsRecommendation)) \o "/"
               \o ToString(C7_Count(loaded.experiments, IsManual))
          /\ dom.pendingBadge = dom.pending
          /\ dom.completedBadge = dom.completed
          /\ dom.skippedBadge = ToString(C7_Count(loaded.recommendations, IsSkipped))

\* Three experiments, one per source, and three recommendations, one per
\* status, loaded while the "skipped" and "manual" tabs are selected.
C7_Witness ==
    /\ hist.event = "loadOk"
    /\ state.currentFilter = "skipped"
    /\ state.currentSource = "manual"
    /\ loaded.experiments = <<EA, EB, EC>>
    /\ loaded.recommendations = <<RA, RC, RD>>
    /\ StatsAndBadges(dom) = <<"3", "1", "1", "1/1/1", "1", "1", "1">>

C8_IsMissing(value) == value.t \in {"null", "undefined", "nan"}

\* C8: every numeric cell of a row and every numeric value of a card whose
\* field is null, undefined, missing or NaN reads "--".
C8_MissingNumbersReadDashes ==
    (hist.event = "loadOk" /\ Len(loaded.experiments) = 1
     /\ Len(loaded.recommendations) = 1 /\ dom.recList.kind = "cards"
     /\ dom.expTbody.kind = "rows")
    => LET exp == loaded.experiments[1]
           rec == loaded.recommendations[1]
           row == dom.expTbody.items[1]
           card == dom.recList.items[1]
           conditions == OrEmpty(rec.conditions, EmptyConditions)
           predictions == OrEmpty(rec.predictions, EmptyPredictions)
           target == OrEmpty(rec.target, EmptyTarget)
       IN /\ \A f \in ExpNumericFields : C8_IsMissing(exp[f]) => row[f] = "--"
          /\ \A f \in ConditionFields :
               C8_IsMissing(conditions[f]) => card[f] = "--"
          /\ \A f \in PredictionFields \ {"p_feasible"} :
               C8_IsMissing(predictions[f]) => card[f] = "--"
          /\ C8_IsMissing(target.size) => card.targetSize = "--"
          /\ C8_IsMissing(target.tolerance) => card.targetTolerance = "--"
          /\ C8_IsMissing(predictions.p_feasible) => card.pFeasible = "--"

\* C9: a load that settles always takes effect, also when a load started
\* after it has settled before it: it either leaves the error fragment in
\* both panels or becomes the load whose lists state holds and the page
\* shows.
C9_EverySettledLoadTakesEffect ==
    [][\A id \in 1..MaxLoads :
          (id \in DOMAIN inflight /\ id \notin DOMAIN inflight')
          => \/ /\ hist'.event = "loadError"
                /\ dom'.recList = ErrorFragment
                /\ dom'.expTbody = ErrorFragment
             \/ /\ hist'.event = "loadOk"
                /\ hist'.applied = id
                /\ Len(state'.experiments) = Len(loaded'.experiments)
                /\ Len(state'.recommendations) = Len(loaded'.recommendations)
                /\ dom'.recList = updateRecommendations(state', dom').dom.recList
                /\ dom'.expTbody = updateExperimentsTable(state', dom').dom.expTbody
                /\ dom'.total = ToString(Len(loaded'.experiments))]_vars

\* Both loads have settled, the second one first and the first one last:
\* state and the page hold the (empty) lists of the first.
C9_Witness ==
    /\ started = 2
    /\ DOMAIN inflight = {}
    /\ hist.event = "loadOk"
    /\ hist.newest = 2
    /\ hist.applied = 1
    /\ state.experiments = <<>>
    /\ dom.total = "0"

\* C10: a failed loadData leaves state, the counters and the badges as they
\* were and replaces only the two panels by the error fragment.
C10_FailedLoadLeavesStateUnchanged ==
    [][\A id \in 1..MaxLoads :
          (id \in DOMAIN inflight /\ id \notin DOMAIN inflight'
           /\ hist'.event = "loadError")
          => /\ state' = state
             /\ StatsAndBadges(dom') = StatsAndBadges(dom)
             /\ dom'.recList = ErrorFragment
             /\ dom'.expTbody = ErrorFragment]_vars
====
